---- MODULE Spec2Model ----
(***************************************************************************)
(* Model of the AT+QTEMP temperature logger (temp_logger2.py, with the     *)
(* print-only variant log_temperature.py sharing its polling loop).        *)
(*                                                                         *)
(* Text is modelled at character level: a string is a sequence of          *)
(* one-character strings, so that the regular expression of                *)
(* extract_temperatures, str.strip, str.startswith and the csv module's    *)
(* quoting are computed the way the code computes them.  The log file is   *)
(* either Absent or the sequence of its records' text lines (each written  *)
(* by csv.writer with the implicit "\r\n" terminator left out).            *)
(***************************************************************************)
EXTENDS Integers, Sequences, FiniteSets, TLC

(***************************************************************************)
(* Bounds of the model.                                                    *)
(***************************************************************************)
MaxCycles == 2      \* poll cycles started in one run
MaxLines == 2       \* raw lines the modem delivers in one cycle
MaxParseLines == 3  \* lines given to extract_temperatures on its own

(***************************************************************************)
(* Characters and strings.                                                 *)
(***************************************************************************)
DQ == "\""
Comma == ","
CR == "\r"
LF == "\n"
Whitespace == {" ", "\t", CR, LF, "\f"}
Digits == <<"0", "1", "2", "3", "4", "5", "6", "7", "8", "9">>
DigitSet == {Digits[i] : i \in 1..10}

Absent == "absent"

IsPrefix(p, s) == Len(p) <= Len(s) /\ SubSeq(s, 1, Len(p)) = p

Drop(s, n) == SubSeq(s, n + 1, Len(s))

\* str.strip(): removes leading and trailing whitespace.
RECURSIVE LStrip(_)
LStrip(s) == IF s # <<>> /\ Head(s) \in Whitespace THEN LStrip(Tail(s)) ELSE s

RECURSIVE RStrip(_)
RStrip(s) ==
    IF s # <<>> /\ s[Len(s)] \in Whitespace THEN RStrip(SubSeq(s, 1, Len(s) - 1)) ELSE s

Strip(s) == RStrip(LStrip(s))

\* str.startswith("+QTEMP")
QTEMP == <<"+", "Q", "T", "E", "M", "P">>
StartsWithQTEMP(s) == IsPrefix(QTEMP, s)

\* Length of the longest prefix of s whose characters all lie in set.
RECURSIVE SpanLen(_, _)
SpanLen(s, set) == IF s # <<>> /\ Head(s) \in set THEN 1 + SpanLen(Tail(s), set) ELSE 0

\* Length of the longest prefix of s that has no character of set.
RECURSIVE CSpanLen(_, _)
CSpanLen(s, set) == IF s # <<>> /\ Head(s) \notin set THEN 1 + CSpanLen(Tail(s), set) ELSE 0

DigitVal(c) == CHOOSE d \in 0..9 : Digits[d + 1] = c

\* int(temperature) on a non-empty run of decimal digits.
RECURSIVE ParseInt(_)
ParseInt(ds) ==
    IF ds = <<>> THEN 0 ELSE 10 * ParseInt(SubSeq(ds, 1, Len(ds) - 1)) + DigitVal(ds[Len(ds)])

\* str(n) for a non-negative integer.
RECURSIVE IntToStr(_)
IntToStr(n) == IF n < 10 THEN <<Digits[n + 1]>> ELSE IntToStr(n \div 10) \o <<Digits[(n % 10) + 1]>>

(***************************************************************************)
(* extract_temperatures: the regular expression                            *)
(*     \+QTEMP:"([^"]+)",\s*"(\d+)"                                        *)
(* applied with re.match (anchored at the start, anything may follow).     *)
(***************************************************************************)
NoMatch == [matched |-> FALSE, name |-> <<>>, digits |-> <<>>]

ReMatch(line) ==
    LET lead == QTEMP \o <<":", DQ>>
        r1 == Drop(line, Len(lead))              \* after  +QTEMP:"
        n == CSpanLen(r1, {DQ})                  \* ([^"]+)
        r2 == Drop(r1, n)                        \* expects  ",
        r3 == Drop(r2, 2)
        w == SpanLen(r3, Whitespace)             \* \s*
        r4 == Drop(r3, w)                        \* expects  "
        r5 == Drop(r4, 1)
        d == SpanLen(r5, DigitSet)               \* (\d+)
        r6 == Drop(r5, d)                        \* expects  "
    IN  IF /\ IsPrefix(lead, line)
           /\ n >= 1
           /\ IsPrefix(<<DQ, Comma>>, r2)
           /\ IsPrefix(<<DQ>>, r4)
           /\ d >= 1
           /\ IsPrefix(<<DQ>>, r6)
        THEN [matched |-> TRUE, name |-> SubSeq(r1, 1, n), digits |-> SubSeq(r5, 1, d)]
        ELSE NoMatch

(***************************************************************************)
(* A Python dict, which keeps insertion order: a sequence of entries       *)
(* [k |-> key, v |-> value] with distinct keys.                            *)
(***************************************************************************)
DictKeys(d) == [i \in 1..Len(d) |-> d[i].k]

DictHas(d, k) == \E i \in 1..Len(d) : d[i].k = k

DictGet(d, k) == d[CHOOSE i \in 1..Len(d) : d[i].k = k].v

\* dict.setdefault(k, v): an existing key keeps its old value.
DictSet_KeepFirst(d, k, v) == IF DictHas(d, k) THEN d ELSE Append(d, [k |-> k, v |-> v])

\* d[k] = v: an existing key keeps its position, a new key goes last.
DictSet(d, k, v) ==
    IF DictHas(d, k)
    THEN [i \in 1..Len(d) |-> IF d[i].k = k THEN [k |-> k, v |-> v] ELSE d[i]]
    ELSE Append(d, [k |-> k, v |-> v])

RECURSIVE ExtractFrom(_, _)
ExtractFrom(temp_data, lines) ==
    IF lines = <<>> THEN temp_data
    ELSE LET match == ReMatch(Head(lines))
         IN  ExtractFrom(IF match.matched
                         THEN DictSet(temp_data, match.name, ParseInt(match.digits))
                         ELSE temp_data,
                         Tail(lines))

extract_temperatures(response_lines) == ExtractFrom(<<>>, response_lines)

(***************************************************************************)
(* The csv module, default dialect (delimiter ',', quotechar '"',          *)
(* QUOTE_MINIMAL, doublequote, lineterminator "\r\n", non-strict reader).  *)
(***************************************************************************)
NeedsQuote(field) == \E i \in 1..Len(field) : field[i] \in {Comma, DQ, CR, LF}

RECURSIVE DoubleQuotes(_)
DoubleQuotes(field) ==
    IF field = <<>> THEN <<>>
    ELSE (IF Head(field) = DQ THEN <<DQ, DQ>> ELSE <<Head(field)>>) \o DoubleQuotes(Tail(field))

QuoteField(field) ==
    IF NeedsQuote(field) THEN <<DQ>> \o DoubleQuotes(field) \o <<DQ>> ELSE field

RECURSIVE JoinFields(_)
JoinFields(fields) ==
    IF fields = <<>> THEN <<>>
    ELSE IF Len(fields) = 1 THEN QuoteField(fields[1])
    ELSE QuoteField(fields[1]) \o <<Comma>> \o JoinFields(Tail(fields))

\* csv.writer.writerow: the text of one record (a lone empty field is written as "").
writerow(fields) == IF fields = <<<<>>>> THEN <<DQ, DQ>> ELSE JoinFields(fields)

\* csv.reader on one line; st is the reader's state, cur the field being collected.
RECURSIVE ReadFields(_, _, _, _)
ReadFields(rest, st, cur, acc) ==
    IF rest = <<>>
    THEN Append(acc, cur)
    ELSE LET c == Head(rest)
             r == Tail(rest)
         IN  CASE st = "START_FIELD" ->
                    IF c = DQ THEN ReadFields(r, "IN_QUOTED_FIELD", cur, acc)
                    ELSE IF c = Comma THEN ReadFields(r, "START_FIELD", <<>>, Append(acc, cur))
                    ELSE ReadFields(r, "IN_FIELD", Append(cur, c), acc)
               [] st = "IN_FIELD" ->
                    IF c = Comma THEN ReadFields(r, "START_FIELD", <<>>, Append(acc, cur))
                    ELSE ReadFields(r, "IN_FIELD", Append(cur, c), acc)
               [] st = "IN_QUOTED_FIELD" ->
                    IF c = DQ THEN ReadFields(r, "QUOTE_IN_QUOTED_FIELD", cur, acc)
                    ELSE ReadFields(r, "IN_QUOTED_FIELD", Append(cur, c), acc)
               [] OTHER ->     \* QUOTE_IN_QUOTED_FIELD
                    IF c = DQ THEN ReadFields(r, "IN_QUOTED_FIELD", Append(cur, c), acc)
                    ELSE IF c = Comma THEN ReadFields(r, "START_FIELD", <<>>, Append(acc, cur))
                    ELSE ReadFields(r, "IN_FIELD", Append(cur, c), acc)

\* One record of csv.reader: an empty line gives the empty list.
readrow(line) == IF line = <<>> THEN <<>> ELSE ReadFields(line, "START_FIELD", <<>>, <<>>)

(***************************************************************************)
(* Inputs: the raw lines the modem may send in reply to AT+QTEMP, as       *)
(* ser.readline() returns them (terminator included).                      *)
(***************************************************************************)
EOL == <<CR, LF>>

SensorLine(name, value) == QTEMP \o <<":", DQ>> \o name \o <<DQ, Comma, DQ>> \o value \o <<DQ>>

TimestampColumn == <<"T", "i", "m", "e", "s", "t", "a", "m", "p">>

LineA == SensorLine(<<"a">>, <<"1">>) \o EOL                 \* +QTEMP:"a","1"
LineB == SensorLine(<<"b", Comma, "c">>, <<"0", "7">>) \o EOL  \* +QTEMP:"b,c","07"
LineBare == QTEMP \o <<":", DQ, "a", DQ, Comma, "4", "5">> \o EOL   \* +QTEMP:"a",45
LineTs == SensorLine(TimestampColumn, <<"5">>) \o EOL        \* +QTEMP:"Timestamp","5"
LineOK == <<"O", "K">> \o EOL                                \* OK

RawLines == {LineA, LineB, LineBare, LineTs, LineOK}

(***************************************************************************)
(* datetime.now().strftime('%Y-%m-%d %H:%M:%S.%f')[:-3] with the wall      *)
(* clock at `now` seconds past 2025-01-01 00:00:00.                        *)
(***************************************************************************)
Pad2(n) == IF n < 10 THEN <<"0">> \o IntToStr(n) ELSE IntToStr(n)

FormatTime(now) ==
    <<"2", "0", "2", "5", "-", "0", "1", "-", "0", "1", " ", "0", "0", ":", "0", "0", ":">>
        \o Pad2(now) \o <<".", "0", "0", "0">>

(***************************************************************************)
(* update_csv_headers and log_to_csv, piece by piece.                      *)
(***************************************************************************)
\* Lines 29-34: the first record of the file; ["Timestamp"] when the file does
\* not exist, [] (the default of next) when it has no line.
ReadHeaders(f) ==
    IF f = Absent THEN <<TimestampColumn>>
    ELSE IF f = <<>> THEN <<>>
    ELSE readrow(f[1])

\* A header rebuilt from the snapshot alone.
MergeHeaders_Rebuild(hdrs, sensors) == <<TimestampColumn>> \o sensors

\* Lines 37-40: append the sensors the header does not have yet, in dict order.
RECURSIVE MergeHeaders(_, _)
MergeHeaders(hdrs, sensors) ==
    IF sensors = <<>> THEN hdrs
    ELSE MergeHeaders(IF \E i \in 1..Len(hdrs) : hdrs[i] = Head(sensors)
                      THEN hdrs
                      ELSE Append(hdrs, Head(sensors)),
                      Tail(sensors))

\* The header written on every call, changed or not.
RewriteFile_Always(f, hdrs, updated) == <<writerow(updated)>>

\* Lines 43-46: open(filename, 'w') truncates the file, then the header is written.
RewriteFile(f, hdrs, updated) ==
    IF updated # hdrs THEN <<writerow(updated)>> ELSE f

\* Line 60: timestamp, then for every header but the first the snapshot's value
\* or "" (csv.writer writes str(value) for an int).
BuildRow(ts, data, hdrs) ==
    <<ts>> \o [i \in 1..(IF Len(hdrs) = 0 THEN 0 ELSE Len(hdrs) - 1) |->
                  IF DictHas(data, hdrs[i + 1]) THEN IntToStr(DictGet(data, hdrs[i + 1]))
                  ELSE <<>>]

\* Lines 56-61: open(filename, 'a') creates a missing file; one record is added.
AppendRow(f, r) == (IF f = Absent THEN <<>> ELSE f) \o <<writerow(r)>>

\* update_csv_headers as a whole, without I/O errors.
update_csv_headers(f, sensors) ==
    LET hdrs == ReadHeaders(f)
        updated == MergeHeaders(hdrs, sensors)
    IN  [file |-> RewriteFile(f, hdrs, updated), headers |-> updated]

(***************************************************************************)
(* State.                                                                  *)
(***************************************************************************)
VARIABLES
    pc,                 \* position of main
    ser,                \* the serial port: "unopened", "open", "closed"
    delivered,          \* lines the transport has handed to readline() in this cycle
    response_lines,     \* main: the +QTEMP lines collected by the drain
    timestamp,          \* main: timestamp of the cycle being recorded
    temperature_data,   \* main: snapshot of the cycle being recorded
    headers,            \* update_csv_headers: headers read from the file
    updated_headers,    \* update_csv_headers: headers with the new sensors
    row,                \* log_to_csv: the row written
    file,               \* the log file: Absent or its records' lines
    clock,              \* wall clock, in inter-cycle delays elapsed
    error,              \* the exception raised last in this cycle, or "none"
    outcome,            \* "running", or the except clause that ended main
    exit_code,          \* exit status of the process, NoExit while it runs
    events              \* history: what the current loop iteration has done, in order

vars == <<pc, ser, delivered, response_lines, timestamp, temperature_data, headers,
          updated_headers, row, file, clock, error, outcome, exit_code, events>>

main_locals == <<response_lines, timestamp, temperature_data>>
csv_locals == <<headers, updated_headers, row>>

None == <<>>

NoExit == "running"

\* An entry of the history of a cycle: what was done, and for a line read the
\* line as readline() returned it.
Ev(what) == [e |-> what, line |-> <<>>]
ReadEv(raw) == [e |-> "read", line |-> raw]

Count(evs, what) == Cardinality({i \in 1..Len(evs) : evs[i].e = what})

Init ==
    /\ pc = "open"
    /\ ser = "unopened"
    /\ delivered = 0
    /\ response_lines = <<>>
    /\ timestamp = None
    /\ temperature_data = <<>>
    /\ headers = None
    /\ updated_headers = None
    /\ row = None
    /\ file \in {Absent, <<>>}
    /\ clock = 0
    /\ error = "none"
    /\ outcome = "running"
    /\ exit_code = NoExit
    /\ events = <<>>

InitAbsent == Init /\ file = Absent

\* The port left as it is when the block is left.
ReleasePort_Leak(s) == s

\* __exit__ of `with serial.Serial(...) as ser`: the port is closed when the
\* block is left, by whatever exception.
ReleasePort(s) == IF s = "open" THEN "closed" ELSE s

\* Lines 115-125: each except clause prints and falls off the end of main, and
\* nothing after main() sets a status, so the interpreter exits with status 0.
ExitCode(clause) == 0

\* An exception leaves the while loop and the with block; one of the except
\* clauses of lines 115-122 handles it and main returns.
Terminate(exc, clause) ==
    /\ pc' = "done"
    /\ ser' = ReleasePort(ser)
    /\ error' = exc
    /\ outcome' = clause
    /\ exit_code' = ExitCode(clause)

(***************************************************************************)
(* main, temp_logger2.py lines 82-122.                                     *)
(***************************************************************************)
\* Line 84: serial.Serial(...) opens the port.
OpenPort ==
    /\ pc = "open"
    /\ pc' = "write"
    /\ ser' = "open"
    /\ UNCHANGED events
    /\ UNCHANGED <<delivered, main_locals, csv_locals, file, clock, error, outcome, exit_code>>

\* Line 84 raising SerialException: there is no port to release.
OpenPortFails ==
    /\ pc = "open"
    /\ Terminate("serial_open", "SerialException")
    /\ UNCHANGED <<delivered, main_locals, csv_locals, file, clock, events>>

\* The command written again while the reply is being drained.
SendCommand_InDrain ==
    /\ pc \in {"write", "drain"}
    /\ clock < MaxCycles
    /\ pc' = "await"
    /\ error' = "none"
    /\ events' = Append(events, Ev("send"))
    /\ UNCHANGED <<ser, delivered, main_locals, csv_locals, file, clock, outcome, exit_code>>

\* Lines 90-91: ser.write(b"AT+QTEMP\r"), the first step of the loop body.
SendCommand ==
    /\ pc = "write"
    /\ clock < MaxCycles
    /\ pc' = "await"
    /\ error' = "none"
    /\ events' = Append(events, Ev("send"))
    /\ UNCHANGED <<ser, delivered, main_locals, csv_locals, file, clock, outcome, exit_code>>

\* Line 91 raising SerialException.
SendCommandFails ==
    /\ pc = "write"
    /\ clock < MaxCycles
    /\ Terminate("serial_write", "SerialException")
    /\ UNCHANGED <<delivered, main_locals, csv_locals, file, clock, events>>

\* Lines 94-96: time.sleep(0.2), then response_lines = [].
Await ==
    /\ pc = "await"
    /\ pc' = "drain"
    /\ delivered' = 0
    /\ response_lines' = <<>>
    /\ UNCHANGED events
    /\ UNCHANGED <<ser, timestamp, temperature_data, csv_locals, file, clock, error, outcome, exit_code>>

\* Lines 99-101: the decoded, stripped line is kept when it is non-empty and
\* starts with +QTEMP.
Collect(lines, raw) ==
    LET response_line == Strip(raw)
    IN  IF response_line # <<>> /\ StartsWithQTEMP(response_line)
        THEN Append(lines, response_line)
        ELSE lines

\* Lines 97-101: ser.in_waiting is non-zero and readline() returns a line.
DrainLine ==
    /\ pc = "drain"
    /\ delivered < MaxLines
    /\ \E raw \in RawLines :
          /\ response_lines' = Collect(response_lines, raw)
          /\ events' = Append(events, ReadEv(raw))
    /\ delivered' = delivered + 1
    /\ UNCHANGED <<pc, ser, timestamp, temperature_data, csv_locals, file, clock, error,
                   outcome, exit_code>>

\* The failed read ends the drain.
DrainReadError_EndsDrain ==
    /\ pc = "drain"
    /\ delivered < MaxLines
    /\ delivered' = delivered + 1
    /\ pc' = "record"
    /\ error' = "readline"
    /\ events' = Append(events, Ev("read_error"))
    /\ UNCHANGED <<ser, main_locals, csv_locals, file, clock, outcome, exit_code>>

\* Lines 98-103: readline() takes a line off the transport and decode() raises
\* on it; the handler prints and the loop tests ser.in_waiting again.
DrainReadError ==
    /\ pc = "drain"
    /\ delivered < MaxLines
    /\ delivered' = delivered + 1
    /\ error' = "readline"
    /\ events' = Append(events, Ev("read_error"))
    /\ UNCHANGED <<pc, ser, main_locals, csv_locals, file, clock, outcome, exit_code>>

\* Line 97: ser.in_waiting is zero, the drain ends.
DrainEnd ==
    /\ pc = "drain"
    /\ pc' = "record"
    /\ UNCHANGED events
    /\ UNCHANGED <<ser, delivered, main_locals, csv_locals, file, clock, error, outcome, exit_code>>

\* Line 97: ser.in_waiting itself raises (outside the try of line 98):
\* SerialException or OSError, depending on the platform's port class.
DrainFails ==
    /\ pc = "drain"
    /\ \E clause \in {"SerialException", "Exception"} : Terminate("in_waiting", clause)
    /\ UNCHANGED <<delivered, main_locals, csv_locals, file, clock, events>>

\* Every cycle recorded, whatever the drain collected.
ShouldRecord_Always(lines) == TRUE

\* A cycle recorded only when its snapshot has a reading.
ShouldRecord_HasReading(lines) == extract_temperatures(lines) # <<>>

\* Line 105: whether this cycle is recorded.
ShouldRecord(lines) == lines # <<>>

\* Lines 105-109: nothing collected: straight to the inter-cycle delay;
\* otherwise the timestamp is taken and the lines are parsed.
Record ==
    /\ pc = "record"
    /\ IF ShouldRecord(response_lines)
       THEN /\ timestamp' = FormatTime(clock)
            /\ temperature_data' = extract_temperatures(response_lines)
            /\ pc' = "update_read"
       ELSE /\ pc' = "sleep"
            /\ UNCHANGED <<timestamp, temperature_data>>
    /\ UNCHANGED events
    /\ UNCHANGED <<ser, delivered, response_lines, csv_locals, file, clock, error, outcome, exit_code>>

\* update_csv_headers lines 29-40: read the header, add the new sensors.
UpdateRead ==
    /\ pc = "update_read"
    /\ pc' = "update_write"
    /\ headers' = ReadHeaders(file)
    /\ updated_headers' = MergeHeaders(ReadHeaders(file), DictKeys(temperature_data))
    /\ UNCHANGED events
    /\ UNCHANGED <<ser, delivered, main_locals, row, file, clock, error, outcome, exit_code>>

\* Line 30 raising an OSError other than FileNotFoundError: nothing catches it
\* before line 121.
UpdateReadFails ==
    /\ pc = "update_read"
    /\ file # Absent
    /\ Terminate("csv_read", "Exception")
    /\ UNCHANGED <<delivered, main_locals, csv_locals, file, clock, events>>

\* Lines 43-48: rewrite the file when the headers changed, return them.
UpdateWrite ==
    /\ pc = "update_write"
    /\ pc' = "append"
    /\ file' = RewriteFile(file, headers, updated_headers)
    /\ events' = Append(events, Ev("reconcile"))
    /\ UNCHANGED <<ser, delivered, main_locals, csv_locals, clock, error, outcome, exit_code>>

\* Line 44 raising OSError: nothing catches it before line 121.
UpdateWriteFails ==
    /\ pc = "update_write"
    /\ updated_headers # headers
    /\ Terminate("csv_write", "Exception")
    /\ UNCHANGED <<delivered, main_locals, csv_locals, file, clock, events>>

\* log_to_csv lines 55-61: append the row.
AppendRecord ==
    /\ pc = "append"
    /\ pc' = "sleep"
    /\ row' = BuildRow(timestamp, temperature_data, updated_headers)
    /\ file' = AppendRow(file, BuildRow(timestamp, temperature_data, updated_headers))
    /\ events' = Append(events, Ev("append"))
    /\ UNCHANGED <<ser, delivered, main_locals, headers, updated_headers, clock, error,
                   outcome, exit_code>>

\* Lines 56, 62-63: open(filename, 'a') raises; the handler prints and
\* log_to_csv returns.
AppendFails ==
    /\ pc = "append"
    /\ pc' = "sleep"
    /\ error' = "csv_append"
    /\ events' = Append(events, Ev("append_failed"))
    /\ UNCHANGED <<ser, delivered, main_locals, csv_locals, file, clock, outcome, exit_code>>

\* Line 113: time.sleep(1) ends the loop body; the frames of the csv
\* functions are gone, and the next iteration starts its own history.
Sleep ==
    /\ pc = "sleep"
    /\ pc' = "write"
    /\ clock' = clock + 1
    /\ headers' = None
    /\ updated_headers' = None
    /\ row' = None
    /\ events' = <<>>
    /\ UNCHANGED <<ser, delivered, main_locals, file, error, outcome, exit_code>>

\* Ctrl+C: KeyboardInterrupt is raised wherever main is (it is no Exception,
\* so lines 62 and 102 do not catch it) and line 115 handles it.
Interrupt ==
    /\ pc # "done"
    /\ Terminate("KeyboardInterrupt", "KeyboardInterrupt")
    /\ UNCHANGED <<delivered, main_locals, csv_locals, file, clock, events>>

Next ==
    \/ OpenPort
    \/ OpenPortFails
    \/ SendCommand
    \/ SendCommandFails
    \/ Await
    \/ DrainLine
    \/ DrainReadError
    \/ DrainEnd
    \/ DrainFails
    \/ Record
    \/ UpdateRead
    \/ UpdateReadFails
    \/ UpdateWrite
    \/ UpdateWriteFails
    \/ AppendRecord
    \/ AppendFails
    \/ Sleep
    \/ Interrupt

Spec == Init /\ [][Next]_vars

\* Runs that start without a log file.
SpecAbsent == InitAbsent /\ [][Next]_vars

\* The steps of main when nobody interrupts it and the serial port does not
\* fail: the interpreter always runs the next statement.
NextLive ==
    \/ OpenPort
    \/ SendCommand
    \/ Await
    \/ DrainLine
    \/ DrainReadError
    \/ DrainEnd
    \/ Record
    \/ UpdateRead
    \/ UpdateReadFails
    \/ UpdateWrite
    \/ UpdateWriteFails
    \/ AppendRecord
    \/ AppendFails
    \/ Sleep

SpecLive == Init /\ [][NextLive]_vars /\ WF_vars(NextLive)

(***************************************************************************)
(* Properties of the log file.                                             *)
(***************************************************************************)
HasHeader(f) == f # Absent /\ f # <<>>

\* What a reader takes for the header: the first record of the file.
PersistedHeader(f) == readrow(f[1])

\* The records after the first.
DataRows(f) == IF HasHeader(f) THEN Tail(f) ELSE <<>>

NoDuplicates(s) == \A i, j \in 1..Len(s) : s[i] = s[j] => i = j

WellFormed(schema) ==
    /\ schema # <<>>
    /\ schema[1] = TimestampColumn
    /\ NoDuplicates(schema)

Elements(s) == {s[i] : i \in 1..Len(s)}

\* C1: rows once written stay in the file, in order and unchanged, whatever
\* later cycles do; in particular a header rewrite removes no earlier row.
C1_RowsSurvive == [][IsPrefix(DataRows(file), DataRows(file'))]_vars

\* C2: the persisted header only grows at its end: once the file has a header,
\* every later header starts with it, so no column is removed or moved (every
\* old column is kept, at its old position), also when its sensor is missing
\* from the snapshot.
C2_SchemaMonotonic ==
    [][HasHeader(file) =>
          /\ HasHeader(file')
          /\ IsPrefix(PersistedHeader(file), PersistedHeader(file'))]_vars

\* A second cycle has added a column to a header whose earlier sensor column
\* is missing from that cycle's snapshot.
C2_Witness ==
    /\ pc = "sleep"
    /\ clock = 1
    /\ row # None
    /\ HasHeader(file)
    /\ Len(PersistedHeader(file)) = 3
    /\ Len(temperature_data) = 1
    /\ headers # updated_headers
    /\ ~DictHas(temperature_data, PersistedHeader(file)[2])

\* C3: when log_to_csv is about to append a row, the file already starts with
\* a header line equal to the schema the row is laid out by.
C3_HeaderBeforeRow ==
    pc = "append" => HasHeader(file) /\ PersistedHeader(file) = updated_headers

\* C4: the row appended has one field per column of the schema returned by
\* update_csv_headers, the timestamp first, and under every sensor column the
\* snapshot's value for that sensor, or the empty field.
C4_RowAlignment ==
    (pc = "sleep" /\ row # None) =>
        LET written == readrow(file[Len(file)])
        IN  /\ Len(written) = Len(updated_headers)
            /\ written[1] = timestamp
            /\ \A i \in 2..Len(updated_headers) :
                  written[i] = IF DictHas(temperature_data, updated_headers[i])
                               THEN IntToStr(DictGet(temperature_data, updated_headers[i]))
                               ELSE <<>>

\* C5: the schema used for a row and the persisted header start with the
\* Timestamp column and have no duplicate column.
C5_SchemaWellFormed ==
    /\ pc = "append" => WellFormed(updated_headers)
    /\ HasHeader(file) => WellFormed(PersistedHeader(file))

(***************************************************************************)
(* extract_temperatures on its own: every sequence of up to MaxParseLines  *)
(* lines from ParseLines is parsed once.                                   *)
(***************************************************************************)
ParseLines ==
    { Strip(LineA),                                                  \* +QTEMP:"a","1"
      SensorLine(<<"a">>, <<"2">>),                                  \* +QTEMP:"a","2"
      QTEMP \o <<":", DQ, "b", DQ, Comma, " ", DQ, "3", "0", DQ, "x">>,  \* +QTEMP:"b", "30"x
      Strip(LineB),                                                  \* +QTEMP:"b,c","07"
      Strip(LineBare),                                               \* +QTEMP:"a",45
      QTEMP \o <<":", DQ, DQ, Comma, DQ, "4", DQ>>,                  \* +QTEMP:"","4"
      QTEMP \o <<":", DQ, "a", DQ, Comma, DQ, "9">>,                 \* +QTEMP:"a","9
      <<"g", "a", "r", "b", "a", "g", "e">> }                        \* garbage

RECURSIVE SeqsUpTo(_, _)
SeqsUpTo(S, n) ==
    IF n = 0 THEN {<<>>}
    ELSE LET shorter == SeqsUpTo(S, n - 1)
         IN  shorter \cup {Append(q, x) : q \in {t \in shorter : Len(t) = n - 1}, x \in S}

InitParse ==
    /\ pc = "parse"
    /\ ser = "unopened"
    /\ delivered = 0
    /\ response_lines \in SeqsUpTo(ParseLines, MaxParseLines)
    /\ timestamp = None
    /\ temperature_data = <<>>
    /\ headers = None
    /\ updated_headers = None
    /\ row = None
    /\ file = Absent
    /\ clock = 0
    /\ error = "none"
    /\ outcome = "running"
    /\ exit_code = NoExit
    /\ events = <<>>

\* Line 107: temperature_data = extract_temperatures(response_lines)
Parse ==
    /\ pc = "parse"
    /\ pc' = "parsed"
    /\ temperature_data' = extract_temperatures(response_lines)
    /\ UNCHANGED events
    /\ UNCHANGED <<ser, delivered, response_lines, timestamp, csv_locals, file, clock, error,
                   outcome, exit_code>>

NextParse == Parse

SpecParse == InitParse /\ [][NextParse]_vars

(***************************************************************************)
(* The reference parser: the reply-line grammar stated as a decomposition  *)
(* of the line, and the snapshot stated by first and last occurrences.     *)
(***************************************************************************)
AllIn(s, from, to, set) == \A i \in from..to : s[i] \in set

\* The (name, value digits) pairs for which the line starts with
\*     +QTEMP:"<name>",<whitespace>"<digits>"
\* name a non-empty run without quote, digits a non-empty run of digits.
Readings(line) ==
    LET L == Len(line)
        lead == QTEMP \o <<":", DQ>>
        P == Len(lead)
        NameLens == {n \in 1..L :
                        /\ IsPrefix(lead, line)
                        /\ P + n + 2 <= L
                        /\ \A i \in (P + 1)..(P + n) : line[i] # DQ
                        /\ line[P + n + 1] = DQ
                        /\ line[P + n + 2] = Comma}
        GapLens(n) == {w \in 0..L :
                          /\ P + n + w + 3 <= L
                          /\ AllIn(line, P + n + 3, P + n + w + 2, Whitespace)
                          /\ line[P + n + w + 3] = DQ}
        DigitLens(n, w) == {d \in 1..L :
                               /\ P + n + w + d + 4 <= L
                               /\ AllIn(line, P + n + w + 4, P + n + w + d + 3, DigitSet)
                               /\ line[P + n + w + d + 4] = DQ}
    IN  UNION { UNION { { [name |-> SubSeq(line, P + 1, P + n),
                           digits |-> SubSeq(line, P + n + w + 4, P + n + w + d + 3)] :
                            d \in DigitLens(n, w) } :
                        w \in GapLens(n) } :
                n \in NameLens }

RECURSIVE ZeroPad(_, _)
ZeroPad(s, n) == IF Len(s) >= n THEN s ELSE ZeroPad(<<"0">> \o s, n)

\* The number a run of digits denotes.
DecimalValue(ds) == CHOOSE n \in 0..(10 ^ Len(ds) - 1) : ZeroPad(IntToStr(n), Len(ds)) = ds

RefSnapshot(lines) ==
    LET Idx == {i \in 1..Len(lines) : Readings(lines[i]) # {}}
        ReadingAt(i) == CHOOSE r \in Readings(lines[i]) : TRUE
        Names == {ReadingAt(i).name : i \in Idx}
        First(n) == CHOOSE i \in Idx :
                       /\ ReadingAt(i).name = n
                       /\ \A j \in Idx : ReadingAt(j).name = n => i <= j
        Last(n) == CHOOSE i \in Idx :
                      /\ ReadingAt(i).name = n
                      /\ \A j \in Idx : ReadingAt(j).name = n => j <= i
        Rank(n) == Cardinality({m \in Names : First(m) < First(n)})
    IN  [p \in 1..Cardinality(Names) |->
            LET n == CHOOSE m \in Names : Rank(m) = p - 1
            IN  [k |-> n, v |-> DecimalValue(ReadingAt(Last(n)).digits)]]

BareReadings(line) ==
    LET L == Len(line)
        lead == QTEMP \o <<":", DQ>>
        P == Len(lead)
        NameLens == {n \in 1..L :
                        /\ IsPrefix(lead, line)
                        /\ P + n + 2 <= L
                        /\ \A i \in (P + 1)..(P + n) : line[i] # DQ
                        /\ line[P + n + 1] = DQ
                        /\ line[P + n + 2] = Comma}
        GapLens(n) == {w \in 0..L :
                          /\ P + n + w + 3 <= L
                          /\ AllIn(line, P + n + 3, P + n + w + 2, Whitespace)
                          /\ AllIn(line, P + n + w + 3, L, DigitSet)}
    IN  UNION { { [name |-> SubSeq(line, P + 1, P + n),
                   digits |-> SubSeq(line, P + n + w + 3, L)] : w \in GapLens(n) } :
                n \in NameLens }

\* C11: a sensor line gives its reading whether its value is quoted or bare:
\* the name of every such line is a key of the snapshot, and the snapshot
\* holds for the name of the last line the number that line's digits denote.
C11_QuotedOrBare ==
    pc = "parsed" =>
        \A i \in 1..Len(response_lines) :
            \A r \in Readings(response_lines[i]) \cup BareReadings(response_lines[i]) :
                /\ DictHas(temperature_data, r.name)
                /\ i = Len(response_lines) =>
                       DictGet(temperature_data, r.name) = DecimalValue(r.digits)

\* C7: a cycle whose drain collected no line goes from the check of line 105
\* straight to the inter-cycle delay (or ends), and every change of the log
\* file, of its existence, header or rows, is made by the reconciliation or
\* the append of a cycle that collected at least one line.
C7_NoDataCycle ==
    [][/\ (pc = "record" /\ response_lines = <<>>) =>
              (pc' \in {"sleep", "done"} /\ file' = file)
       /\ file' # file =>
              (pc \in {"update_write", "append"} /\ response_lines # <<>>)]_vars

\* The second cycle drained lines, none with the +QTEMP prefix, after a first
\* cycle that was recorded.
C7_Witness ==
    /\ pc = "sleep"
    /\ clock = 1
    /\ delivered > 0
    /\ response_lines = <<>>
    /\ HasHeader(file)
    /\ DataRows(file) # <<>>

AllKnown(data, f) ==
    HasHeader(f) /\ \A i \in 1..Len(data) : data[i].k \in Elements(PersistedHeader(f))

\* C8: when every sensor of the snapshot is already in the persisted header,
\* update_csv_headers returns that header and leaves the file as it is; and
\* on any file and snapshot, a second call right after the first returns the
\* same schema and leaves the same file as the first.
C8_IdempotentReconciliation ==
    [][/\ (pc = "update_read" /\ pc' = "update_write" /\ AllKnown(temperature_data, file)) =>
              /\ updated_headers' = PersistedHeader(file)
              /\ update_csv_headers(file, DictKeys(temperature_data)).file = file
       /\ (pc = "update_write" /\ pc' = "append" /\ AllKnown(temperature_data, file)) =>
              file' = file
       /\ pc = "update_read" =>
              LET once == update_csv_headers(file, DictKeys(temperature_data))
              IN  update_csv_headers(once.file, DictKeys(temperature_data)) = once]_vars

\* A cycle with known sensors only has been reconciled against a file that
\* holds a header and a row.
C8_Witness ==
    /\ pc = "append"
    /\ temperature_data # <<>>
    /\ headers = updated_headers
    /\ HasHeader(file)
    /\ DataRows(file) # <<>>

Kinds(evs, kinds) == {i \in 1..Len(evs) : evs[i].e \in kinds}

\* The order of the steps of one loop iteration.
CycleOrder(evs) ==
    /\ evs # <<>> => evs[1].e = "send"
    /\ Count(evs, "send") <= 1
    /\ Count(evs, "reconcile") <= 1
    /\ \A j \in Kinds(evs, {"append", "append_failed"}) :
           \E i \in Kinds(evs, {"reconcile"}) : i < j

\* C13: in every cycle the command is written once and before any line is
\* drained, the schema reconciliation is done before the row append, and a
\* cycle that has reconciled is through with its row append when it ends, so
\* before the command of the next cycle is written; the next cycle starts
\* with the write of the command.
C13_StepOrder ==
    [][/\ CycleOrder(events')
       /\ (events # <<>> /\ events' = <<>>) =>
              (Kinds(events, {"reconcile"}) # {} =>
                  Kinds(events, {"append", "append_failed"}) # {})
       /\ (events = <<>> /\ events' # <<>>) => events' = <<Ev("send")>>]_vars

\* The second cycle has written the command, drained two lines, reconciled
\* the schema and appended its row, in this order.
C13_Witness ==
    /\ pc = "sleep"
    /\ clock = 1
    /\ Len(events) = 5
    /\ events[1].e = "send"
    /\ events[2].e = "read"
    /\ events[3].e = "read"
    /\ events[4].e = "reconcile"
    /\ events[5].e = "append"

\* The lines read in the iteration that carry the +QTEMP prefix, stripped, in
\* the order they were read.
RECURSIVE KeptLines(_)
KeptLines(evs) ==
    IF evs = <<>> THEN <<>>
    ELSE LET e == Head(evs)
         IN  (IF e.e = "read" /\ StartsWithQTEMP(Strip(e.line))
              THEN <<Strip(e.line)>>
              ELSE <<>>) \o KeptLines(Tail(evs))

\* C14: a failed read drops only its own line: the step leaves the drain
\* running and the lines collected as they are; from the drain to the end of
\* the cycle the lines collected are the prefixed lines read, before and after
\* any failed read, in the order read; the snapshot recorded is parsed from
\* them, and the row appended is the row of that snapshot.
C14_ReadErrorContained ==
    [][/\ (Count(events', "read_error") > Count(events, "read_error")) =>
              /\ pc' = "drain"
              /\ response_lines' = response_lines
              /\ outcome' = outcome
       /\ pc' \in {"drain", "record", "update_read", "update_write", "append", "sleep"} =>
              response_lines' = KeptLines(events')
       /\ pc' \in {"update_read", "update_write", "append"} =>
              temperature_data' = extract_temperatures(KeptLines(events'))
       /\ (pc = "append" /\ pc' = "sleep" /\ file' # file) =>
              file'[Len(file')] =
                  writerow(BuildRow(timestamp', extract_temperatures(KeptLines(events')),
                                    updated_headers'))]_vars

\* A read has failed, the next read has returned a sensor line, and the cycle
\* has appended the row of that line.
C14_Witness ==
    /\ pc = "sleep"
    /\ Len(events) = 5
    /\ events[2].e = "read_error"
    /\ events[3] = ReadEv(LineA)
    /\ events[5].e = "append"
    /\ response_lines = <<Strip(LineA)>>
    /\ DictHas(temperature_data, <<"a">>)

\* C15: without interrupt and transport failure, a cycle that is draining
\* gets to its inter-cycle delay, and from the delay the command of the next
\* cycle is written (as far as cycles are modelled).
C15_CycleProgress ==
    /\ (pc = "drain") ~> (pc = "sleep")
    /\ (pc = "sleep" /\ clock + 1 < MaxCycles) ~> (pc = "await")

\* C16: the row appended carries every reading of the cycle's snapshot: for
\* every sensor of the snapshot, whatever its name, the persisted header has a
\* column of that name and the row holds the sensor's value at that column's
\* position.
C16_NoReadingLost ==
    (pc = "sleep" /\ row # None) =>
        LET header == PersistedHeader(file)
            written == readrow(file[Len(file)])
        IN  \A p \in 1..Len(temperature_data) :
                \E i \in 1..Len(header) :
                    /\ header[i] = temperature_data[p].k
                    /\ i <= Len(written)
                    /\ written[i] = IntToStr(temperature_data[p].v)

Records(f) == IF f = Absent THEN <<>> ELSE f

\* C17: a cycle appends at most one row, and an append adds exactly one
\* record at the end of the file; data rows are added by the append only.  At
\* the inter-cycle delay, a cycle that read at least one line with the +QTEMP
\* prefix and met no persistence error has appended one row, which for an
\* empty snapshot is the timestamp followed by empty fields only; a cycle
\* that read no such line has neither reconciled nor appended.
C17_RowsPerCycle ==
    [][/\ Count(events', "append") <= 1
       /\ Count(events', "append") > Count(events, "append") =>
              /\ Len(Records(file')) = Len(Records(file)) + 1
              /\ IsPrefix(Records(file), file')
       /\ Len(DataRows(file')) > Len(DataRows(file)) =>
              Count(events', "append") > Count(events, "append")
       /\ pc' = "sleep" =>
              /\ (KeptLines(events') # <<>> /\ error' # "csv_append") =>
                     Count(events', "append") = 1
              /\ KeptLines(events') = <<>> =>
                     Kinds(events', {"reconcile", "append", "append_failed"}) = {}
              /\ (Count(events', "append") = 1 /\ temperature_data' = <<>>) =>
                     LET written == readrow(file'[Len(file')])
                     IN  /\ written[1] = timestamp'
                         /\ \A i \in 2..Len(written) : written[i] = <<>>]_vars

\* The second cycle read only a +QTEMP line that is no sensor line: its
\* snapshot is empty, and it has appended a row of the timestamp and an empty
\* field for the sensor of the first cycle.
C17_Witness ==
    /\ pc = "sleep"
    /\ clock = 1
    /\ events = <<Ev("send"), ReadEv(LineBare), Ev("reconcile"), Ev("append")>>
    /\ temperature_data = <<>>
    /\ Len(file) = 3
    /\ readrow(file[3]) = <<timestamp, <<>>>>

TransportErrors == {"serial_open", "serial_write", "in_waiting"}

\* C9: the loop ends only by an interrupt or a transport-fatal error; an error
\* of a persistence step is reported and the loop goes on.
C9_PersistenceErrorContained ==
    pc = "done" => error \in TransportErrors \cup {"KeyboardInterrupt"}

\* C12: when main has ended, the exit status is 0 after an interrupt and is
\* not 0 after a transport error (the port cannot be opened, a write or the
\* test for waiting input fails).
C12_ExitOutcome ==
    pc = "done" =>
        /\ outcome = "KeyboardInterrupt" => exit_code = 0
        /\ error \in TransportErrors => exit_code # 0

\* C10: the port is held exactly while main is inside the with block: once
\* main has ended, by whatever exception, the port is not open, and it is
\* open only between its opening and the end of main.
C10_PortReleased ==
    /\ pc = "done" => ser # "open"
    /\ ser = "open" <=> pc \notin {"open", "done"}
    /\ ser = "closed" => pc = "done"

\* main has ended by an exception of the loop body that is no serial error,
\* and the port it had opened is closed.
C10_Witness ==
    /\ pc = "done"
    /\ outcome = "Exception"
    /\ ser = "closed"

====
